---- MODULE Spec2Model ----
(***************************************************************************)
(* State-machine model of analyze_survey.py: the batch pipeline            *)
(*   load -> strip metadata -> Task 1 (mean rank by employment)            *)
(*        -> Task 2 (earnings belief by program type) -> summary file.     *)
(* A table cell is <<>> when missing (NaN) and <<v>> when it holds v: a    *)
(* string as read from the CSV, or a number after numeric coercion.        *)
(* A mean or a percentage is an exact fraction <<numerator, denominator>>  *)
(* in lowest terms (binary floating-point rounding is not modelled).       *)
(***************************************************************************)
EXTENDS Integers, Sequences, FiniteSets, TLC

VARIABLES
    csv,            \* the input file: [state, cols, rows]
    images,         \* image files present on disk
    summary,        \* results_summary.csv on disk: [exists, content]
    pc,             \* position of main()
    run,            \* 1 for the first invocation, 2 for the second
    stdout,         \* messages printed by the current run
    exitCode,       \* <<>> while running, <<status>> once the process ended
    raised,         \* [exc, at]: the exception that ended the run, if any
    df,             \* main: df
    df_clean,       \* main: df_clean
    task1_df,       \* main: task1_df
    task1_means,    \* main: task1_means
    task2_df,       \* main: task2_df
    task2_crosstab, \* main: task2_crosstab
    f,              \* the summary file handle: "none", "open", "closed"
    opens,          \* [mode, count]: opens of the summary file in this run
    written,        \* what was written through the handle, in order
    saved,          \* artifacts saved by the current run, in order
    startSummary,   \* the summary file as it was when the current run began
    firstSummary,   \* the summary file as the first run left it
    firstExit       \* the exit status of the first run, <<>> until it ended

vars == <<csv, images, summary, pc, run, stdout, exitCode, raised, df, df_clean,
          task1_df, task1_means, task2_df, task2_crosstab, f, opens, written,
          saved, startSummary, firstSummary, firstExit>>

locals == <<df, df_clean, task1_df, task1_means, task2_df, task2_crosstab>>
handle == <<f, opens, written>>
history == <<run, startSummary, firstSummary, firstExit>>

-----------------------------------------------------------------------------
(* Bounds of the model *)

\* most rows (metadata rows included) of an arbitrary input table
MaxRows == 4
\* most response rows of an input table in the documented export format
MaxDataRows == 4

-----------------------------------------------------------------------------
(* Cells, fractions, ordering *)

NA == <<>>
Cell(v) == <<v>>
isna(c) == Len(c) = 0
Val(c) == c[1]

Range(s) == {s[i] : i \in DOMAIN s}

RECURSIVE GCD(_, _)
GCD(a, b) == IF b = 0 THEN a ELSE GCD(b, a % b)

\* the value n/d (d > 0) in lowest terms
Frac(n, d) == LET g == GCD(n, d) IN <<n \div g, d \div g>>

RECURSIVE SumSeq(_)
SumSeq(s) == IF s = <<>> THEN 0 ELSE Head(s) + SumSeq(Tail(s))

\* the strings of the model in Python's (code point) string order, the order
\* in which groupby and crosstab arrange their keys
StrOrder ==
    << "Definitely not", "Definitely yes", "MAcc", "MBA", "Maybe",
       "Might or might not", "No", "PhD", "Probably not", "Probably yes",
       "Program", "Unsure", "Work?", "Yes", "{QID44}", "{QID47}", "{QID58}" >>

Sorted(S) == SelectSeq(StrOrder, LAMBDA s : s \in S)

Reverse(s) == [i \in 1..Len(s) |-> s[Len(s) + 1 - i]]

-----------------------------------------------------------------------------
(* Column identifiers and labels *)

col_employment == "Q47"

col_rankings ==
    << <<"Q24_1", "CPA Exam Preparation">>,
       <<"Q24_2", "Networking Opportunities">>,
       <<"Q24_3", "Interaction with Experienced Faculty">>,
       <<"Q24_4", "Technical Accounting Skills">>,
       <<"Q24_5", "Soft Skill Development">>,
       <<"Q24_6", "Internship and Recruitment Opportunities">> >>

ranking_keys == [i \in DOMAIN col_rankings |-> col_rankings[i][1]]
ranking_cols == [i \in DOMAIN col_rankings |-> col_rankings[i][2]]

WorkCol == "Work in CPA Firm"

col_program == "Q58"
col_earnings == "Q44"
ProgramCol == "Program Type"
BeliefCol == "Lifetime Earnings Belief"

likert_order ==
    << "Definitely yes", "Probably yes", "Might or might not",
       "Probably not", "Definitely not" >>

Task1Png == "task1_priorities.png"
Task2Png == "task2_earnings.png"

AllCols == {col_employment, col_program, col_earnings} \cup Range(ranking_keys)

-----------------------------------------------------------------------------
(* Input tables *)

\* a CSV row: employment, six ranking cells, program type, earnings belief
MkRow(emp, ranks, prog, belief) ==
    [c \in AllCols |->
        IF c = col_employment THEN emp
        ELSE IF c = col_program THEN prog
        ELSE IF c = col_earnings THEN belief
        ELSE ranks[CHOOSE i \in DOMAIN ranking_keys : ranking_keys[i] = c]]

Cells(s) == [i \in DOMAIN s |-> IF s[i] = "" THEN NA ELSE Cell(s[i])]

\* the two metadata rows of the export: question text and import ids
QuestionTextRow ==
    MkRow(Cell("Work?"), Cells(<<"Rank", "Rank", "Rank", "Rank", "Rank", "Rank">>),
          Cell("Program"), Cell("Maybe"))
ImportIdRow ==
    MkRow(Cell("{QID47}"), Cells(<<"{Q}", "{Q}", "{Q}", "{Q}", "{Q}", "{Q}">>),
          Cell("{QID58}"), Cell("{QID44}"))
MetaRows == <<QuestionTextRow, ImportIdRow>>

\* response rows the input tables are built from
RowPool ==
    { MkRow(Cell("Yes"), Cells(<<"1", "2", "3", "4", "5", "6">>),
            Cell("MAcc"), Cell("Definitely not")),
      MkRow(Cell("Yes"), Cells(<<"3", "1", "2", "6", "4", "5">>),
            Cell("MBA"), Cell("Probably yes")),
      MkRow(Cell("No"), Cells(<<"6", "5", "4", "3", "2", "1">>),
            Cell("MAcc"), Cell("Unsure")),
      MkRow(Cell("No"), Cells(<<"2", "n/a", "", "1", "3", "4">>),
            Cell("MBA"), NA),
      MkRow(NA, Cells(<<"4", "3", "6", "5", "1", "2">>),
            Cell("PhD"), Cell("Definitely yes")),
      MkRow(Cell("Yes"), Cells(<<"5", "", "1", "2", "3", "4">>),
            Cell("MAcc"), Cell("Maybe")) }

\* rows of arbitrary input tables: responses and metadata-like rows
AnyPool ==
    { QuestionTextRow,
      MkRow(Cell("Yes"), Cells(<<"1", "2", "3", "4", "5", "6">>),
            Cell("MAcc"), Cell("Definitely not")),
      MkRow(Cell("No"), Cells(<<"2", "n/a", "", "1", "3", "4">>),
            Cell("MBA"), Cell("Probably yes")),
      MkRow(Cell("Yes"), Cells(<<"3", "1", "2", "6", "4", "5">>),
            Cell("PhD"), NA) }

SeqsUpTo(S, n) == UNION {[1..k -> S] : k \in 0..n}

\* every belief label of the model: the five-point scale and two others
AllLabels == Range(likert_order) \cup {"Maybe", "Unsure"}

\* one response per label of L, in reverse alphabetical order, the program
\* type alternating between MAcc and MBA
LabelTable(L) ==
    LET labs == Reverse(Sorted(L))
    IN  [i \in DOMAIN labs |->
            MkRow(Cell("Yes"), Cells(<<"1", "2", "3", "4", "5", "6">>),
                  Cell(IF i % 2 = 1 THEN "MAcc" ELSE "MBA"), Cell(labs[i]))]

\* column sets of an input file: complete, or lacking one expected column
ColumnSets == {AllCols} \cup {AllCols \ {c} : c \in AllCols}

-----------------------------------------------------------------------------
(* Stage 2: metadata stripper *)

\* variant: only the first row is dropped (iloc[1:])
StripOneRow(rows) == SubSeq(rows, 2, Len(rows))

\* df.iloc[2:].reset_index(drop=True)
StripMetadata(rows) == SubSeq(rows, 3, Len(rows))

-----------------------------------------------------------------------------
(* Task 1: mean rank by employment status *)

\* df[[...]] raises KeyError unless every wanted column exists
HasColumns(cols, wanted) == wanted \subseteq cols

Task1Wanted == {col_employment} \cup Range(ranking_keys)

\* df_clean[[col_employment] + keys] with both renames applied
Task1Select(row) ==
    [c \in {WorkCol} \cup Range(ranking_cols) |->
        IF c = WorkCol THEN row[col_employment]
        ELSE row[ranking_keys[CHOOSE i \in DOMAIN ranking_cols : ranking_cols[i] = c]]]

NumeralValue ==
    ("1" :> 1) @@ ("2" :> 2) @@ ("3" :> 3) @@ ("4" :> 4) @@ ("5" :> 5) @@ ("6" :> 6)

\* pd.to_numeric(..., errors='coerce') of one cell
to_numeric(c) ==
    IF isna(c) THEN NA
    ELSE IF Val(c) \in DOMAIN NumeralValue THEN Cell(NumeralValue[Val(c)])
    ELSE NA

Task1Coerced(rows) ==
    [k \in DOMAIN rows |->
        [c \in DOMAIN rows[k] |->
            IF c \in Range(ranking_cols) THEN to_numeric(rows[k][c]) ELSE rows[k][c]]]

\* DataFrame.dropna(subset=...): keep the rows with no missing cell in subset
dropna(rows, subset) ==
    SelectSeq(rows, LAMBDA r : \A c \in subset : ~isna(r[c]))

\* variant: only the group column is required (dropna(subset=['Work in CPA Firm']))
Task1DropnaGroupOnly(rows) == dropna(rows, {WorkCol})

Task1Dropna(rows) == dropna(rows, {WorkCol} \cup Range(ranking_cols))

\* Series.mean(): the mean of the non-missing values, NaN when there is none
mean(cells) ==
    LET present == SelectSeq(cells, LAMBDA c : ~isna(c))
        values == [i \in DOMAIN present |-> Val(present[i])]
    IN  IF present = <<>> THEN NA ELSE Frac(SumSeq(values), Len(values))

Column(rows, c) == [k \in DOMAIN rows |-> rows[k][c]]

\* keys of groupby / crosstab: the distinct non-missing values, sorted
GroupKeys(rows, c) ==
    Sorted({Val(rows[k][c]) : k \in {j \in DOMAIN rows : ~isna(rows[j][c])}})

InGroup(rows, c, g) ==
    SelectSeq(rows, LAMBDA r : ~isna(r[c]) /\ Val(r[c]) = g)

\* task1_df.groupby('Work in CPA Firm')[ranking_cols].mean()
GroupMeans(rows) ==
    LET keys == GroupKeys(rows, WorkCol)
    IN  [ index |-> keys,
          columns |-> ranking_cols,
          cell |-> [g \in Range(keys) |->
                      [c \in Range(ranking_cols) |->
                          mean(Column(InGroup(rows, WorkCol, g), c))]] ]

EmptyTable == [index |-> <<>>, columns |-> <<>>, cell |-> <<>>]

\* a frame not yet assigned: no columns, no rows
EmptyFrame == [index |-> <<>>, columns |-> {}, cell |-> <<>>]

-----------------------------------------------------------------------------
(* Task 2: earnings belief by program type *)

Task2Wanted == {col_program, col_earnings}

Task2Select(row) ==
    [c \in {ProgramCol, BeliefCol} |->
        IF c = ProgramCol THEN row[col_program] ELSE row[col_earnings]]

\* Series.isin(values): a missing cell is in no list
isin(c, values) == ~isna(c) /\ Val(c) \in values

\* variant: the isin filter is left out
Task2FilterNone(rows) == rows

Task2Filter(rows) ==
    SelectSeq(rows, LAMBDA r : isin(r[ProgramCol], {"MAcc", "MBA"}))

Task2Dropna(rows) == dropna(rows, {ProgramCol, BeliefCol})

Count(rows, p, b) ==
    Len(SelectSeq(InGroup(rows, ProgramCol, p),
                  LAMBDA r : ~isna(r[BeliefCol]) /\ Val(r[BeliefCol]) = b))

\* variant: normalize='all', the denominator is the grand total
NormalizeByAll(rows, p) == Len(rows)

\* the denominator of normalize='index': the total of the row of p
NormalizeBy(rows, p) == Len(InGroup(rows, ProgramCol, p))

\* pd.crosstab(program, belief, normalize='index') * 100
Crosstab(rows) ==
    LET both == dropna(rows, {ProgramCol, BeliefCol})
        idx == GroupKeys(both, ProgramCol)
        cols == GroupKeys(both, BeliefCol)
    IN  [ index |-> idx,
          columns |-> cols,
          cell |-> [p \in Range(idx) |->
                      [b \in Range(cols) |->
                          Frac(100 * Count(both, p, b), NormalizeBy(both, p))]] ]

\* [val for val in likert_order if val in columns]
existing_order(columns) ==
    SelectSeq(likert_order, LAMBDA v : v \in Range(columns))

\* [c for c in columns if c not in existing_order]
others(columns) ==
    SelectSeq(columns, LAMBDA c : c \notin Range(existing_order(columns)))

\* variant: the concatenation the other way round (others + existing_order)
final_order_others_first(columns) == others(columns) \o existing_order(columns)

final_order(columns) == existing_order(columns) \o others(columns)

\* task2_crosstab[final_order]
Reordered(table) == [table EXCEPT !.columns = final_order(table.columns)]

\* DataFrame.plot raises TypeError("no numeric data to plot") on an empty frame
NothingToPlot(table) == table.index = <<>> \/ table.columns = <<>>

-----------------------------------------------------------------------------
(* Summary file *)

TextLine(s) == [kind |-> "text", key |-> s, cols |-> <<>>, vals |-> <<>>]
HeaderLine(name, cols) == [kind |-> "header", key |-> name, cols |-> cols, vals |-> <<>>]
DataLine(key, vals) == [kind |-> "row", key |-> key, cols |-> <<>>, vals |-> vals]

\* DataFrame.to_csv: a header line, then one line per index key
to_csv(table, name) ==
    <<HeaderLine(name, table.columns)>> \o
    [i \in DOMAIN table.index |->
        DataLine(table.index[i],
                 [j \in DOMAIN table.columns |->
                     table.cell[table.index[i]][table.columns[j]]])]

Task1Header == "Task 1: Mean Ranks by Employment Status (Lower = Higher Priority)"
Task2Header == "Task 2: Percentage Belief in Higher Lifetime Earnings by Program Type"

\* the five writes of the with block, in program order
WriteTags == <<"task1_header", "task1_means", "blank", "task2_header", "task2_crosstab">>

WriteText(k, means, crosstab) ==
    CASE k = 1 -> <<TextLine(Task1Header)>>
      [] k = 2 -> to_csv(means, WorkCol)
      [] k = 3 -> <<TextLine("")>>
      [] k = 4 -> <<TextLine(Task2Header)>>
      [] k = 5 -> to_csv(crosstab, ProgramCol)

\* variant: open(path, 'a') keeps what the file held
OpenedContentAppend(old) == old

\* open(path, 'w'): the content the file has right after the open
OpenedContent(old) == <<>>

\* variant: no with block, the handle is left as it is
WithExitLeak(h) == h

\* leaving the with block, normally or by an exception, closes the handle
WithExit(h) == "closed"

-----------------------------------------------------------------------------
(* Initial states *)

NoFile == [exists |-> FALSE, content |-> <<>>]
NoException == [exc |-> "none", at |-> "none"]

\* the rows of a table as a file with the columns C holds them
Project(rows, C) == [k \in DOMAIN rows |-> [c \in C |-> rows[k][c]]]

CsvFile(C, rows) == [state |-> "ok", cols |-> C, rows |-> Project(rows, C)]

\* no file of that name, or a zero-byte file read_csv cannot parse
BadFiles ==
    { [state |-> "missing", cols |-> {}, rows |-> <<>>],
      [state |-> "empty", cols |-> {}, rows |-> <<>>] }

\* the state in which main() is entered
Fresh ==
    /\ pc = "load"
    /\ stdout = <<>>
    /\ exitCode = <<>>
    /\ raised = NoException
    /\ df = EmptyFrame
    /\ df_clean = EmptyFrame
    /\ task1_df = <<>>
    /\ task1_means = EmptyTable
    /\ task2_df = <<>>
    /\ task2_crosstab = EmptyTable
    /\ f = "none"
    /\ opens = [mode |-> "none", count |-> 0]
    /\ written = <<>>
    /\ saved = <<>>

FirstRun ==
    /\ Fresh
    /\ images = {}
    /\ summary = NoFile
    /\ run = 1
    /\ startSummary = NoFile
    /\ firstSummary = NoFile
    /\ firstExit = <<>>

\* any input file: absent, unparsable, or a table of any rows and columns
Init ==
    /\ csv \in BadFiles \cup
               {CsvFile(C, t) : C \in ColumnSets, t \in SeqsUpTo(AnyPool, MaxRows)}
    /\ FirstRun

\* an input file in the export format: two metadata rows, then responses
InitData ==
    /\ csv \in {CsvFile(AllCols, MetaRows \o t) : t \in SeqsUpTo(RowPool, MaxDataRows)}
               \cup {CsvFile(AllCols, MetaRows \o LabelTable(L)) : L \in SUBSET AllLabels}
    /\ FirstRun

-----------------------------------------------------------------------------
(* The steps of main() *)

print(msg) == stdout' = Append(stdout, msg)

\* an unhandled exception: traceback, exit status 1
Raise(exc) ==
    /\ raised' = [exc |-> exc, at |-> pc]
    /\ exitCode' = <<1>>
    /\ pc' = "exited"

Goto(next) ==
    /\ pc' = next
    /\ UNCHANGED <<exitCode, raised>>

disk == <<images, summary, saved>>

\* line 11: read_csv succeeds
Load ==
    /\ pc = "load"
    /\ csv.state = "ok"
    /\ df' = [index |-> <<>>, columns |-> csv.cols, cell |-> csv.rows]
    /\ Goto("strip")
    /\ UNCHANGED <<csv, disk, stdout, df_clean, task1_df, task1_means, task2_df,
                   task2_crosstab, handle, history>>

\* variant: no except clause, FileNotFoundError propagates
LoadMissingUncaught ==
    /\ pc = "load"
    /\ csv.state = "missing"
    /\ Raise("FileNotFoundError")
    /\ UNCHANGED <<csv, disk, stdout, locals, handle, history>>

\* lines 12-14: FileNotFoundError is caught, reported, and the process exits 1
LoadMissing ==
    /\ pc = "load"
    /\ csv.state = "missing"
    /\ print("Error: CSV file not found.")
    /\ exitCode' = <<1>>
    /\ pc' = "exited"
    /\ UNCHANGED <<csv, disk, raised, locals, handle, history>>

\* line 11: any other error of read_csv is not caught
LoadError ==
    /\ pc = "load"
    /\ csv.state = "empty"
    /\ Raise("EmptyDataError")
    /\ UNCHANGED <<csv, disk, stdout, locals, handle, history>>

\* lines 21-24
Strip ==
    /\ pc = "strip"
    /\ df_clean' = [df EXCEPT !.cell = StripMetadata(df.cell)]
    /\ print("Starting Task 1...")
    /\ Goto("check")
    /\ UNCHANGED <<csv, disk, df, task1_df, task1_means, task2_df, task2_crosstab,
                   handle, history>>

\* line 41: the employment column is there
ColumnFound ==
    /\ pc = "check"
    /\ col_employment \in df_clean.columns
    /\ Goto("subset1")
    /\ UNCHANGED <<csv, disk, stdout, locals, handle, history>>

\* variant: the run is aborted at the check (sys.exit(1) after the warning)
ColumnWarningAbort ==
    /\ pc = "check"
    /\ col_employment \notin df_clean.columns
    /\ print("Warning: Q47 not found.")
    /\ exitCode' = <<1>>
    /\ pc' = "exited"
    /\ UNCHANGED <<csv, disk, raised, locals, handle, history>>

\* lines 41-44: the employment column is absent: a warning, and nothing else
ColumnWarning ==
    /\ pc = "check"
    /\ col_employment \notin df_clean.columns
    /\ print("Warning: Q47 not found.")
    /\ Goto("subset1")
    /\ UNCHANGED <<csv, disk, locals, handle, history>>

\* lines 47-51
Task1Subset ==
    /\ pc = "subset1"
    /\ HasColumns(df_clean.columns, Task1Wanted)
    /\ task1_df' = [k \in DOMAIN df_clean.cell |-> Task1Select(df_clean.cell[k])]
    /\ Goto("coerce1")
    /\ UNCHANGED <<csv, disk, stdout, df, df_clean, task1_means, task2_df,
                   task2_crosstab, handle, history>>

\* line 47: selecting an absent column
Task1KeyError ==
    /\ pc = "subset1"
    /\ ~HasColumns(df_clean.columns, Task1Wanted)
    /\ Raise("KeyError")
    /\ UNCHANGED <<csv, disk, stdout, locals, handle, history>>

\* lines 54-56
Task1Coerce ==
    /\ pc = "coerce1"
    /\ task1_df' = Task1Coerced(task1_df)
    /\ Goto("dropna1")
    /\ UNCHANGED <<csv, disk, stdout, df, df_clean, task1_means, task2_df,
                   task2_crosstab, handle, history>>

\* line 59
Task1DropMissing ==
    /\ pc = "dropna1"
    /\ task1_df' = Task1Dropna(task1_df)
    /\ Goto("means1")
    /\ UNCHANGED <<csv, disk, stdout, df, df_clean, task1_means, task2_df,
                   task2_crosstab, handle, history>>

\* line 62
Task1Means ==
    /\ pc = "means1"
    /\ task1_means' = GroupMeans(task1_df)
    /\ Goto("chart1")
    /\ UNCHANGED <<csv, disk, stdout, df, df_clean, task1_df, task2_df,
                   task2_crosstab, handle, history>>

\* variant: plt.savefig is left out, the figure is only closed
Task1ChartUnsaved ==
    /\ pc = "chart1"
    /\ print("Task 1 completed. Saved task1_priorities.png")
    /\ Goto("subset2")
    /\ UNCHANGED <<csv, disk, locals, handle, history>>

\* lines 65-80: the chart is drawn and saved
Task1Chart ==
    /\ pc = "chart1"
    /\ images' = images \cup {Task1Png}
    /\ saved' = Append(saved, Task1Png)
    /\ print("Task 1 completed. Saved task1_priorities.png")
    /\ Goto("subset2")
    /\ UNCHANGED <<csv, summary, locals, handle, history>>

\* lines 65-78: drawing or saving the chart fails
Task1ChartFail ==
    /\ pc = "chart1"
    /\ Raise("Exception")
    /\ UNCHANGED <<csv, disk, stdout, locals, handle, history>>

\* lines 83-94
Task2Subset ==
    /\ pc = "subset2"
    /\ print("Starting Task 2...")
    /\ HasColumns(df_clean.columns, Task2Wanted)
    /\ task2_df' = [k \in DOMAIN df_clean.cell |-> Task2Select(df_clean.cell[k])]
    /\ Goto("filter2")
    /\ UNCHANGED <<csv, disk, df, df_clean, task1_df, task1_means, task2_crosstab,
                   handle, history>>

\* lines 83-93: selecting an absent column
Task2KeyError ==
    /\ pc = "subset2"
    /\ print("Starting Task 2...")
    /\ ~HasColumns(df_clean.columns, Task2Wanted)
    /\ Raise("KeyError")
    /\ UNCHANGED <<csv, disk, locals, handle, history>>

\* line 97
Task2FilterRows ==
    /\ pc = "filter2"
    /\ task2_df' = Task2Filter(task2_df)
    /\ Goto("dropna2")
    /\ UNCHANGED <<csv, disk, stdout, df, df_clean, task1_df, task1_means,
                   task2_crosstab, handle, history>>

\* line 100
Task2DropMissing ==
    /\ pc = "dropna2"
    /\ task2_df' = Task2Dropna(task2_df)
    /\ Goto("crosstab2")
    /\ UNCHANGED <<csv, disk, stdout, df, df_clean, task1_df, task1_means,
                   task2_crosstab, handle, history>>

\* line 116
Task2Crosstab ==
    /\ pc = "crosstab2"
    /\ task2_crosstab' = Crosstab(task2_df)
    /\ Goto("reorder2")
    /\ UNCHANGED <<csv, disk, stdout, df, df_clean, task1_df, task1_means, task2_df,
                   handle, history>>

\* lines 119-123
Task2Reorder ==
    /\ pc = "reorder2"
    /\ task2_crosstab' = Reordered(task2_crosstab)
    /\ Goto("chart2")
    /\ UNCHANGED <<csv, disk, stdout, df, df_clean, task1_df, task1_means, task2_df,
                   handle, history>>

\* lines 127-149: the chart is drawn and saved
Task2Chart ==
    /\ pc = "chart2"
    /\ ~NothingToPlot(task2_crosstab)
    /\ images' = images \cup {Task2Png}
    /\ saved' = Append(saved, Task2Png)
    /\ print("Task 2 completed. Saved task2_earnings.png")
    /\ Goto("open")
    /\ UNCHANGED <<csv, summary, locals, handle, history>>

\* line 127: plotting a table without rows or columns
Task2ChartEmpty ==
    /\ pc = "chart2"
    /\ NothingToPlot(task2_crosstab)
    /\ Raise("TypeError")
    /\ UNCHANGED <<csv, disk, stdout, locals, handle, history>>

\* lines 127-146: drawing or saving the chart fails
Task2ChartFail ==
    /\ pc = "chart2"
    /\ ~NothingToPlot(task2_crosstab)
    /\ Raise("Exception")
    /\ UNCHANGED <<csv, disk, stdout, locals, handle, history>>

\* lines 152-153: the summary file is opened for writing
SummaryOpen ==
    /\ pc = "open"
    /\ print("Generating summary...")
    /\ f' = "open"
    /\ opens' = [mode |-> "w", count |-> opens.count + 1]
    /\ summary' = [exists |-> TRUE, content |-> OpenedContent(summary.content)]
    /\ Goto("write")
    /\ UNCHANGED <<csv, images, saved, locals, written, history>>

\* lines 152-153: open() fails
SummaryOpenFail ==
    /\ pc = "open"
    /\ print("Generating summary...")
    /\ Raise("OSError")
    /\ UNCHANGED <<csv, disk, locals, handle, history>>

\* lines 154-158: the next write of the with block
SummaryWrite ==
    /\ pc = "write"
    /\ LET k == Len(written) + 1
       IN  /\ written' = Append(written, WriteTags[k])
           /\ summary' = [summary EXCEPT
                            !.content = @ \o WriteText(k, task1_means, task2_crosstab)]
           /\ Goto(IF k = Len(WriteTags) THEN "close" ELSE "write")
    /\ UNCHANGED <<csv, images, saved, stdout, locals, f, opens, history>>

\* lines 153-158: a write fails; the with block closes the file on the way out
SummaryWriteFail ==
    /\ pc = "write"
    /\ f' = WithExit(f)
    /\ Raise("OSError")
    /\ UNCHANGED <<csv, disk, stdout, locals, opens, written, history>>

\* lines 158-163: the with block ends, the last message, exit status 0
SummaryClose ==
    /\ pc = "close"
    /\ f' = WithExit(f)
    /\ print("Summary saved to results_summary.csv")
    /\ exitCode' = <<0>>
    /\ pc' = "done"
    /\ UNCHANGED <<csv, disk, raised, locals, opens, written, history>>

\* the script is invoked a second time, on the same input file
Rerun ==
    /\ pc \in {"done", "exited"}
    /\ run = 1
    /\ run' = 2
    /\ startSummary' = summary
    /\ firstSummary' = summary
    /\ firstExit' = exitCode
    /\ pc' = "load"
    /\ stdout' = <<>>
    /\ exitCode' = <<>>
    /\ raised' = NoException
    /\ df' = EmptyFrame
    /\ df_clean' = EmptyFrame
    /\ task1_df' = <<>>
    /\ task1_means' = EmptyTable
    /\ task2_df' = <<>>
    /\ task2_crosstab' = EmptyTable
    /\ f' = "none"
    /\ opens' = [mode |-> "none", count |-> 0]
    /\ written' = <<>>
    /\ saved' = <<>>
    /\ UNCHANGED <<csv, images, summary>>

-----------------------------------------------------------------------------
(* Specifications *)

\* the steps of a run on a well-formed input file
NextData ==
    \/ Load \/ Strip \/ ColumnFound
    \/ Task1Subset \/ Task1Coerce \/ Task1DropMissing \/ Task1Means \/ Task1Chart
    \/ Task2Subset \/ Task2FilterRows \/ Task2DropMissing \/ Task2Crosstab
    \/ Task2Reorder \/ Task2Chart \/ Task2ChartEmpty
    \/ SummaryOpen \/ SummaryWrite \/ SummaryClose

\* every step, the failures included, and the second invocation
Next ==
    \/ NextData
    \/ LoadMissing \/ LoadError \/ ColumnWarning \/ Task1KeyError \/ Task1ChartFail
    \/ Task2KeyError \/ Task2ChartFail \/ SummaryOpenFail \/ SummaryWriteFail
    \/ Rerun

Spec == Init /\ [][Next]_vars

SpecData == InitData /\ [][NextData]_vars

-----------------------------------------------------------------------------
(* Positions of a run *)

\* the statements of main() in program order
Stages ==
    << "load", "strip", "check", "subset1", "coerce1", "dropna1", "means1",
       "chart1", "subset2", "filter2", "dropna2", "crosstab2", "reorder2",
       "chart2", "open", "write", "close", "done" >>

StageNo(s) == CHOOSE i \in DOMAIN Stages : Stages[i] = s

\* where the run is, or where it ended
Position ==
    IF pc # "exited" THEN pc
    ELSE IF raised.at = "none" THEN (IF "Starting Task 1..." \in Range(stdout) THEN "check" ELSE "load")
    ELSE raised.at

\* stage s has been carried out by the current run
Passed(s) == StageNo(Position) > StageNo(s)

Ended == pc \in {"done", "exited"}

Task2Stages == {"subset2", "filter2", "dropna2", "crosstab2", "reorder2", "chart2"}

FracAdd(x, y) == Frac(x[1] * y[2] + y[1] * x[2], x[2] * y[2])

RECURSIVE FracSum(_)
FracSum(s) == IF s = <<>> THEN <<0, 1>> ELSE FracAdd(Head(s), FracSum(Tail(s)))

StrPos(x) == CHOOSE i \in DOMAIN StrOrder : StrOrder[i] = x
LikertPos(x) == CHOOSE i \in DOMAIN likert_order : likert_order[i] = x

-----------------------------------------------------------------------------
(* C1: Task 1 aggregation *)

\* the rows of the cleaned table whose group and six rankings are all present
\* after coercion
CompleteRows ==
    {k \in DOMAIN df_clean.cell :
        /\ ~isna(df_clean.cell[k][col_employment])
        /\ \A i \in DOMAIN ranking_keys :
              ~isna(to_numeric(df_clean.cell[k][ranking_keys[i]]))}

RowsOfGroup(g) == {k \in CompleteRows : Val(df_clean.cell[k][col_employment]) = g}

RankValue(k, i) == Val(to_numeric(df_clean.cell[k][ranking_keys[i]]))

\* the sum of ranking field i over the rows K
RECURSIVE RankTotal(_, _)
RankTotal(K, i) ==
    IF K = {} THEN 0
    ELSE LET k == CHOOSE x \in K : TRUE IN RankValue(k, i) + RankTotal(K \ {k}, i)

\* C1: the mean-rank table has one row per group that has complete rows, and
\* for every group g and every ranking field the reported mean is the
\* arithmetic mean of the field's coerced values over exactly the complete
\* rows of g; a row with a missing or non-numeric ranking counts in no mean.
C1_Task1Means ==
    Passed("means1") =>
        /\ Range(task1_means.index) =
              {Val(df_clean.cell[k][col_employment]) : k \in CompleteRows}
        /\ \A g \in Range(task1_means.index) : \A i \in DOMAIN ranking_cols :
              LET m == task1_means.cell[g][ranking_cols[i]]
                  total == RankTotal(RowsOfGroup(g), i)
              IN  /\ Len(m) = 2
                  /\ m[2] > 0
                  /\ m[1] * Cardinality(RowsOfGroup(g)) = total * m[2]

\* some group has two complete rows and a row that is left out although some
\* of its rankings are numeric
C1_Witness ==
    /\ Passed("means1")
    /\ \E g \in Range(task1_means.index) :
          /\ Cardinality(RowsOfGroup(g)) >= 2
          /\ \E k \in DOMAIN df_clean.cell \ CompleteRows :
                /\ ~isna(df_clean.cell[k][col_employment])
                /\ Val(df_clean.cell[k][col_employment]) = g
                /\ \E i \in DOMAIN ranking_keys :
                      ~isna(to_numeric(df_clean.cell[k][ranking_keys[i]]))

-----------------------------------------------------------------------------
(* C2, C3: Task 2 cross-tabulation and filtering *)

ProgramOf(k) == df_clean.cell[k][col_program]
BeliefOf(k) == df_clean.cell[k][col_earnings]

\* the respondents Task 2 retains: program type MAcc or MBA, belief present
Retained ==
    {k \in DOMAIN df_clean.cell :
        /\ ~isna(ProgramOf(k))
        /\ Val(ProgramOf(k)) \in {"MAcc", "MBA"}
        /\ ~isna(BeliefOf(k))}

RetainedOf(p) == {k \in Retained : Val(ProgramOf(k)) = p}

\* C2: every cell of the percentage table is 100 x (retained respondents of
\* the row's program type giving the column's belief) / (retained respondents
\* of that program type), and the cells of a row sum to 100.
C2_RowPercentages ==
    Passed("crosstab2") =>
        \A p \in Range(task2_crosstab.index) :
            /\ Cardinality(RetainedOf(p)) > 0
            /\ \A b \in Range(task2_crosstab.columns) :
                  LET cell == task2_crosstab.cell[p][b]
                      n == Cardinality({k \in RetainedOf(p) : Val(BeliefOf(k)) = b})
                  IN  cell[1] * Cardinality(RetainedOf(p)) = 100 * n * cell[2]
            /\ FracSum([j \in DOMAIN task2_crosstab.columns |->
                           task2_crosstab.cell[p][task2_crosstab.columns[j]]]) = <<100, 1>>

\* a row of the table that spreads over several beliefs
C2_Witness ==
    /\ Passed("crosstab2")
    /\ \E p \in Range(task2_crosstab.index) : \E b \in Range(task2_crosstab.columns) :
          /\ task2_crosstab.cell[p][b] # <<0, 1>>
          /\ task2_crosstab.cell[p][b] # <<100, 1>>
    /\ Len(task2_crosstab.index) = 2

ProgramValues == {Val(ProgramOf(k)) : k \in {j \in DOMAIN df_clean.cell : ~isna(ProgramOf(j))}}

\* C3 as stated: with Program Type values MAcc, MBA and PhD in the input, the
\* table has exactly the two rows MAcc and MBA.
C3_Original ==
    (Passed("crosstab2") /\ ProgramValues = {"MAcc", "MBA", "PhD"}) =>
        task2_crosstab.index = <<"MAcc", "MBA">>

\* C3 amended: no row with a Program Type other than MAcc or MBA is kept or
\* counted, and the table has one row for each of MAcc and MBA that has a
\* respondent with a non-missing earnings belief (two rows when both have).
C3_Task2Filter ==
    /\ Passed("filter2") =>
          \A i \in DOMAIN task2_df :
              /\ ~isna(task2_df[i][ProgramCol])
              /\ Val(task2_df[i][ProgramCol]) \in {"MAcc", "MBA"}
    /\ Passed("dropna2") => Len(task2_df) = Cardinality(Retained)
    /\ Passed("crosstab2") =>
          /\ task2_crosstab.index =
                Sorted({p \in {"MAcc", "MBA"} : RetainedOf(p) # {}})
          /\ Range(task2_crosstab.columns) = {Val(BeliefOf(k)) : k \in Retained}

\* the input has the three program types, the table the two rows, and a PhD
\* respondent's belief is no column of the table
C3_Witness ==
    /\ Passed("crosstab2")
    /\ ProgramValues = {"MAcc", "MBA", "PhD"}
    /\ task2_crosstab.index = <<"MAcc", "MBA">>
    /\ \E k \in DOMAIN df_clean.cell :
          /\ ~isna(ProgramOf(k)) /\ Val(ProgramOf(k)) = "PhD"
          /\ ~isna(BeliefOf(k))
          /\ Val(BeliefOf(k)) \notin Range(task2_crosstab.columns)

-----------------------------------------------------------------------------
(* C4: column reordering *)

IsLikert(x) == x \in Range(likert_order)

\* C4: after the reordering the columns are the belief labels present, each
\* once; the five-point-scale labels come first, in the canonical order, and
\* the out-of-scale labels follow in alphabetical (table-default) order.
C4_ColumnOrder ==
    Passed("reorder2") =>
        LET cols == task2_crosstab.columns
            present == {Val(BeliefOf(k)) : k \in Retained}
        IN  /\ Range(cols) = present
            /\ Len(cols) = Cardinality(present)
            /\ \A i, j \in DOMAIN cols : i < j =>
                  /\ IsLikert(cols[j]) => IsLikert(cols[i])
                  /\ (IsLikert(cols[i]) /\ IsLikert(cols[j])) =>
                        LikertPos(cols[i]) < LikertPos(cols[j])
                  /\ (~IsLikert(cols[i]) /\ ~IsLikert(cols[j])) =>
                        StrPos(cols[i]) < StrPos(cols[j])
            /\ present = {"Probably not", "Definitely yes", "Might or might not"} =>
                  cols = <<"Definitely yes", "Might or might not", "Probably not">>

\* every label of the model is a column: five scale labels, two others
C4_Witness ==
    /\ Passed("reorder2")
    /\ task2_crosstab.columns =
          << "Definitely yes", "Probably yes", "Might or might not",
             "Probably not", "Definitely not", "Maybe", "Unsure" >>

-----------------------------------------------------------------------------
(* C5: metadata stripper *)

\* C5 as stated: the cleaned table has exactly N-2 rows, the rows of the
\* input from position 2 on, in order.
C5_Original ==
    Passed("strip") =>
        /\ Len(df_clean.cell) = Len(df.cell) - 2
        /\ \A i \in DOMAIN df_clean.cell : df_clean.cell[i] = df.cell[i + 2]

\* C5 amended: the cleaned table has N-2 rows when N >= 2 and none when
\* N < 2; its rows are the input's rows from position 2 on, in order, so the
\* first two rows (or all, when there are fewer) are removed whatever they hold.
C5_StripMetadata ==
    Passed("strip") =>
        /\ Len(df_clean.cell) = (IF Len(df.cell) >= 2 THEN Len(df.cell) - 2 ELSE 0)
        /\ \A i \in DOMAIN df_clean.cell : df_clean.cell[i] = df.cell[i + 2]
        /\ Len(df.cell) >= 3 => df_clean.cell[1] = df.cell[3]
        /\ df_clean.columns = df.columns

\* a table of four rows whose first row is a response, not metadata
C5_Witness ==
    /\ Passed("strip")
    /\ Len(df.cell) = 4
    /\ Len(df_clean.cell) = 2
    /\ df.columns = AllCols
    /\ df.cell[1] # QuestionTextRow
    /\ df.cell[3] # df.cell[1]

-----------------------------------------------------------------------------
(* C6: missing input file *)

\* C6: when the input file does not exist the run prints the diagnostic and
\* ends with a non-zero status, with no exception propagated and no later
\* stage run (no image saved, the summary file not opened or changed); the
\* exit status is 0 only for a run that completed every stage.
C6_MissingFile ==
    /\ csv.state = "missing" =>
          /\ pc \in {"load", "exited"}
          /\ pc = "exited" =>
                /\ stdout = <<"Error: CSV file not found.">>
                /\ Len(exitCode) = 1 /\ exitCode[1] # 0
                /\ raised = NoException
          /\ saved = <<>> /\ images = {}
          /\ f = "none" /\ opens.count = 0
          /\ summary = NoFile
    /\ exitCode = <<0>> =>
          /\ pc = "done"
          /\ saved = <<Task1Png, Task2Png>>
          /\ written = WriteTags
          /\ f = "closed"

\* the run on a missing input file has ended
C6_Witness ==
    /\ csv.state = "missing"
    /\ pc = "exited"
    /\ run = 1
    /\ stdout = <<"Error: CSV file not found.">>

-----------------------------------------------------------------------------
(* C7: missing employment column *)

Warning == "Warning: Q47 not found."

EmploymentAbsent == Passed("strip") /\ col_employment \notin df_clean.columns

\* C7 as stated: with the employment column absent the warning is printed and
\* the run goes on to the Task 1 subsetting and the later stages.
C7_Original ==
    (EmploymentAbsent /\ Ended) =>
        /\ Warning \in Range(stdout)
        /\ Passed("subset1")

\* C7 amended: with the employment column absent the warning is printed and
\* the run does not stop at the check; it goes on to the Task 1 subsetting,
\* where selecting the absent column raises an unhandled KeyError that ends
\* the run with a non-zero status before any later stage.
C7_MissingColumn ==
    EmploymentAbsent =>
        /\ pc # "check" => (Warning \in Range(stdout) /\ pc \in {"subset1", "exited"})
        /\ pc = "exited" =>
              /\ raised = [exc |-> "KeyError", at |-> "subset1"]
              /\ exitCode = <<1>>
        /\ task1_df = <<>>
        /\ saved = <<>> /\ f = "none"

\* the warned run has ended in the Task 1 subsetting
C7_Witness ==
    /\ EmploymentAbsent
    /\ Warning \in Range(stdout)
    /\ pc = "exited"
    /\ raised.at = "subset1"
    /\ Len(df_clean.cell) > 0

-----------------------------------------------------------------------------
(* C8: summary writer protocol *)

IsPrefix(s, t) == Len(s) <= Len(t) /\ \A i \in DOMAIN s : s[i] = t[i]

SummaryText(means, crosstab) ==
    <<TextLine(Task1Header)>> \o to_csv(means, WorkCol) \o <<TextLine("")>>
        \o <<TextLine(Task2Header)>> \o to_csv(crosstab, ProgramCol)

\* C8: in a run the summary file is opened at most once, for overwriting; the
\* writes through the handle are the Task 1 header, the mean-rank table, a
\* blank line, the Task 2 header and the percentage table, in this order and
\* nothing else; the handle is closed whenever the run has left the block,
\* also when a write failed.
C8_SummaryProtocol ==
    /\ opens.count <= 1
    /\ opens.count = 1 => opens.mode = "w"
    /\ f = "none" <=> opens.count = 0
    /\ f = "none" => written = <<>>
    /\ IsPrefix(written, WriteTags)
    /\ f = "open" <=> pc \in {"write", "close"}
    /\ Ended => f # "open"
    /\ pc \in {"close", "done"} =>
          /\ opens.count = 1
          /\ written = WriteTags
          /\ summary.content = SummaryText(task1_means, task2_crosstab)

\* a write failed after the first two writes, and the handle is closed
C8_Witness ==
    /\ pc = "exited"
    /\ raised.at = "write"
    /\ written = <<"task1_header", "task1_means">>
    /\ f = "closed"

-----------------------------------------------------------------------------
(* C9: idempotence *)

\* C9: when both of two successive runs on the unchanged input complete, the
\* summary file after the second run is what it was after the first.
C9_Idempotent ==
    (run = 2 /\ pc = "done" /\ firstExit = <<0>>) => summary = firstSummary

\* two completed runs whose summary holds rows of both tables
C9_Witness ==
    /\ run = 2 /\ pc = "done" /\ firstExit = <<0>>
    /\ summary.exists
    /\ task1_means.index # <<>>
    /\ Len(task2_crosstab.columns) >= 2

-----------------------------------------------------------------------------
(* C10: stage ordering and partial outputs *)

\* C10: the summary file is opened only after both images have been saved;
\* the Task 1 chart is saved before a Task 2 column is selected; a run that
\* fails in Task 2 ends with the Task 1 image written and the summary file
\* never opened, so that a summary file of an earlier run is unchanged.
C10_StageOrder ==
    /\ (f # "none" \/ opens.count > 0) => saved = <<Task1Png, Task2Png>>
    /\ (Position \in Task2Stages \/ task2_df # <<>>) =>
          (Len(saved) >= 1 /\ saved[1] = Task1Png /\ Task1Png \in images)
    /\ (pc = "exited" /\ raised.at \in Task2Stages) =>
          /\ exitCode = <<1>>
          /\ Task1Png \in Range(saved)
          /\ Task1Png \in images
          /\ f = "none" /\ opens.count = 0
          /\ summary = startSummary

\* the second run fails in Task 2 and the first run's summary is still there
C10_Witness ==
    /\ run = 2
    /\ pc = "exited"
    /\ raised.at \in Task2Stages
    /\ firstExit = <<0>>
    /\ summary.exists
    /\ summary = firstSummary
    /\ saved = <<Task1Png>>

====
